---- MODULE Spec2Model ----
(***************************************************************************)
(* Model of the type-directed value encoder of cargo-contract,             *)
(* src/cmd/extrinsics/transcode/encode.rs.                                 *)
(*                                                                         *)
(* encode_value is a recursive walk over a type registry and a value tree  *)
(* that appends bytes to an output sink.  It is modelled as the recursive  *)
(* operator EncodeValue, one operator per impl block of the source, and a  *)
(* state machine whose initial states draw one call (type id, value, the   *)
(* caller's buffer) and whose actions run that call through the arm of     *)
(* TypeDef::encode_value_to it dispatches to.                              *)
(*                                                                         *)
(* Integers of the code are up to 128 bits wide; they are kept as limb     *)
(* sequences in base 1000000 (most significant limb first, no leading zero *)
(* limb) so that no width is lost.  Text is a sequence of one-character    *)
(* strings.                                                                *)
(***************************************************************************)
EXTENDS Integers, Sequences, FiniteSets, TLC

VARIABLES
    type_id,    \* the type id handed to encode_value
    value,      \* the value handed to encode_value
    output,     \* the caller's output sink (append-only byte buffer)
    result,     \* what the call returned (outcome, error chain)
    pc          \* "call" before the call, "done" after it

vars == <<type_id, value, output, result, pc>>

\* Bounds of the model.
MaxLen == 3        \* longest generated Seq, Tuple, Map and Bytes value
MaxStrLen == 4     \* longest generated text
StackLimit == 8    \* nested calls the call stack holds

RECURSIVE EncodeValue(_, _, _)
RECURSIVE TypeDefEncodeValueTo(_, _, _)
RECURSIVE FieldsZipEncode(_, _, _)
RECURSIVE EncodeSeqElems(_, _, _, _)
RECURSIVE StripZeros(_)
RECURSIVE MulAddRev(_, _, _)
RECURSIVE DivModGo(_, _, _, _)
RECURSIVE LexLeq(_, _)
RECURSIVE ToLeBytes(_, _)

----------------------------------------------------------------------------
(* Unsigned integers of up to 128 bits and more, as sequences of limbs in  *)
(* base 1000000, most significant limb first, no leading zero limb.        *)

StripZeros(d) ==
    IF Len(d) > 1 /\ Head(d) = 0 THEN StripZeros(Tail(d)) ELSE d

Reverse(s) == [i \in 1..Len(s) |-> s[Len(s) + 1 - i]]

\* rev is least-significant limb first; the result too.
MulAddRev(rev, m, carry) ==
    IF rev = <<>>
    THEN IF carry = 0 THEN <<>> ELSE <<carry>>
    ELSE LET t == Head(rev) * m + carry
         IN  <<t % 1000000>> \o MulAddRev(Tail(rev), m, t \div 1000000)

\* d * m + a, for a number d and naturals m, a up to 256.
MulAdd(d, m, a) ==
    LET r == MulAddRev(Reverse(d), m, a)
    IN  IF r = <<>> THEN <<0>> ELSE StripZeros(Reverse(r))

\* Long division by 256 of the limbs from the i-th on; q collects the quotient.
DivModGo(d, i, rem, q) ==
    IF i > Len(d) THEN [q |-> StripZeros(IF q = <<>> THEN <<0>> ELSE q), r |-> rem]
    ELSE LET t == rem * 1000000 + d[i]
         IN  DivModGo(d, i + 1, t % 256, Append(q, t \div 256))

DivMod256(d) == DivModGo(d, 1, 0, <<>>)

LexLeq(a, b) ==
    IF a = <<>> THEN TRUE
    ELSE IF Head(a) # Head(b) THEN Head(a) < Head(b)
    ELSE LexLeq(Tail(a), Tail(b))

\* a <= b
Leq(a, b) ==
    IF Len(a) # Len(b) THEN Len(a) < Len(b) ELSE LexLeq(a, b)

\* The largest value of each unsigned width (u8::MAX ... u128::MAX).
MaxOf(bits) ==
    CASE bits = 8   -> <<255>>
      [] bits = 16  -> <<65535>>
      [] bits = 32  -> <<4294, 967295>>
      [] bits = 64  -> <<18, 446744, 73709, 551615>>
      [] bits = 128 -> <<340, 282366, 920938, 463463, 374607, 431768, 211455>>

Pow10(k) ==
    CASE k = 0 -> 1 [] k = 1 -> 10 [] k = 2 -> 100 [] k = 3 -> 1000
      [] k = 4 -> 10000 [] k = 5 -> 100000

\* The number written by the decimal digits ds (naturals 0..9, most significant
\* first; the empty sequence writes 0).
FromDigits(ds) ==
    LET n == Len(ds)
        digit(p) == IF p < n THEN ds[n - p] ELSE 0     \* p-th digit from the right
        limb(k)  == digit(6 * k) + 10 * digit(6 * k + 1) + 100 * digit(6 * k + 2)
                      + 1000 * digit(6 * k + 3) + 10000 * digit(6 * k + 4)
                      + 100000 * digit(6 * k + 5)
        limbs    == IF n = 0 THEN 1 ELSE (n + 5) \div 6
    IN  StripZeros([i \in 1..limbs |-> limb(limbs - i)])

----------------------------------------------------------------------------
(* The primitive codec the encoder calls into (scale::Encode).             *)

\* Fixed-width little-endian bytes of d: nbytes bytes, least significant first.
ToLeBytes(d, nbytes) ==
    IF nbytes = 0 THEN <<>>
    ELSE LET dm == DivMod256(d)
         IN  <<dm.r>> \o ToLeBytes(dm.q, nbytes - 1)

\* Compact(n as u32).encode_to: the variable-length count prefix.
CompactU32(n) ==
    IF n < 64 THEN <<n * 4>>
    ELSE IF n < 16384
         THEN <<(n % 64) * 4 + 1, n \div 64>>
    ELSE IF n < 1073741824
         THEN <<(n % 64) * 4 + 2, (n \div 64) % 256,
                (n \div 16384) % 256, n \div 4194304>>
    ELSE <<3, n % 256, (n \div 256) % 256, (n \div 65536) % 256, n \div 16777216>>

\* bool::encode_to: one byte.
EncodeBool(b) == IF b THEN <<1>> ELSE <<0>>

----------------------------------------------------------------------------
(* Text: a string is a sequence of one-character strings.                  *)

Digits == <<"0", "1", "2", "3", "4", "5", "6", "7", "8", "9">>

IsDigit(c) == \E i \in 1..10 : Digits[i] = c

\* char::to_digit(10)
ToDigit(c) == (CHOOSE i \in 1..10 : Digits[i] = c) - 1

\* The UTF-8 byte of each character the model's texts are written with.
Utf8Byte(c) ==
    CASE IsDigit(c) -> 48 + ToDigit(c)
      [] c = "+" -> 43
      [] c = "," -> 44
      [] c = "-" -> 45
      [] c = "_" -> 95
      [] c = "a" -> 97
      [] OTHER   -> 63

\* String::encode_to: compact byte count, then the UTF-8 bytes.
EncodeStr(s) == CompactU32(Len(s)) \o [i \in 1..Len(s) |-> Utf8Byte(s[i])]

\* Mutant of Sanitize: only '_' is removed.
SanitizeUnderscoreOnly(s) == SelectSeq(s, LAMBDA c : c # "_")

\* str::replace(&['_', ','][..], "")
Sanitize(s) == SelectSeq(s, LAMBDA c : c # "_" /\ c # ",")

\* The digit loop of u64::from_str / u128::from_str:
\*   for c in digits { result = result.checked_mul(10)? .checked_add(c.to_digit(10)?)? }
\* After i digits the accumulator is the number the first i digits write; the
\* loop ends at the first character that is no digit or takes it above MAX.
ParseDigits(s, bits) ==
    LET acc(i) == FromDigits([j \in 1..i |-> ToDigit(s[j])])
        stops  == {i \in 1..Len(s) :
                      \/ ~IsDigit(s[i])
                      \/ /\ \A j \in 1..i : IsDigit(s[j])
                         /\ ~Leq(acc(i), MaxOf(bits))}
    IN  IF stops = {} THEN [ok |-> TRUE, n |-> acc(Len(s)), msg |-> ""]
        ELSE LET i == CHOOSE k \in stops : \A j \in stops : k <= j
             IN  IF ~IsDigit(s[i])
                 THEN [ok |-> FALSE, n |-> <<0>>, msg |-> "invalid digit found in string"]
                 ELSE [ok |-> FALSE, n |-> <<0>>,
                       msg |-> "number too large to fit in target type"]

\* u64::from_str / u128::from_str: an optional '+', then decimal digits.
FromStr(s, bits) ==
    IF s = <<>>
    THEN [ok |-> FALSE, n |-> <<0>>, msg |-> "cannot parse integer from empty string"]
    ELSE IF Len(s) = 1 /\ Head(s) \in {"+", "-"}
         THEN [ok |-> FALSE, n |-> <<0>>, msg |-> "invalid digit found in string"]
    ELSE ParseDigits(IF Head(s) = "+" THEN Tail(s) ELSE s, bits)

\* Mutant of TryInto: a wrapping cast (n as uN), which never refuses.
TryIntoWrapping(n, bits) == [ok |-> TRUE, n |-> n, msg |-> ""]

\* u128 -> uN via TryInto: refuses a value above uN::MAX.
TryInto(n, bits) ==
    IF Leq(n, MaxOf(bits))
    THEN [ok |-> TRUE, n |-> n, msg |-> ""]
    ELSE [ok |-> FALSE, n |-> <<0>>,
          msg |-> "out of range integral type conversion attempted"]

----------------------------------------------------------------------------
(* Values (scon::Value).  One record shape for every kind.                 *)

None == <<>>
Some(x) == <<x>>

BlankValue ==
    [kind |-> "Bool", b |-> FALSE, num |-> <<0>>, text |-> <<>>, bytes |-> <<>>,
     elems |-> <<>>, ident |-> None, keys |-> <<>>]

ValueBool(b)         == [BlankValue EXCEPT !.kind = "Bool", !.b = b]
ValueUInt(n)         == [BlankValue EXCEPT !.kind = "UInt", !.num = n]
ValueString(s)       == [BlankValue EXCEPT !.kind = "String", !.text = s]
ValueBytes(bs)       == [BlankValue EXCEPT !.kind = "Bytes", !.bytes = bs]
ValueSeq(es)         == [BlankValue EXCEPT !.kind = "Seq", !.elems = es]
ValueTuple(id, es)   == [BlankValue EXCEPT !.kind = "Tuple", !.ident = id, !.elems = es]
ValueMap(id, ks, es) ==
    [BlankValue EXCEPT !.kind = "Map", !.ident = id, !.keys = ks, !.elems = es]

----------------------------------------------------------------------------
(* Type descriptors (scale_info::TypeDef in compact form).                 *)

BlankType ==
    [def |-> "Primitive", prim |-> "Bool", fields |-> <<>>, variants |-> <<>>,
     type_param |-> 0, len |-> 0, path |-> <<>>]

Field(name, ty) == [name |-> name, ty |-> ty]
VariantCase(name, fields) == [name |-> name, fields |-> fields]

Primitive(p)          == [BlankType EXCEPT !.prim = p]
Composite(path, fs)   == [BlankType EXCEPT !.def = "Composite", !.fields = fs, !.path = path]
Variant(path, cases)  == [BlankType EXCEPT !.def = "Variant", !.variants = cases, !.path = path]
Array(n, ty)          == [BlankType EXCEPT !.def = "Array", !.len = n, !.type_param = ty]
Sequence(ty)          == [BlankType EXCEPT !.def = "Sequence", !.type_param = ty]
TupleDef              == [BlankType EXCEPT !.def = "Tuple"]

----------------------------------------------------------------------------
(* The registry the calls are checked against (RegistryReadOnly): every    *)
(* descriptor kind and primitive of the encoder, nested and self-referring *)
(* composites, and fields whose type id the registry does not hold.        *)

PadCases == [i \in 1..255 |-> VariantCase("Pad", <<>>)]

Registry ==
    <<  Primitive("Bool"),                                         \*  1
        Primitive("Char"),                                         \*  2
        Primitive("Str"),                                          \*  3
        Primitive("U8"),                                           \*  4
        Primitive("U16"),                                          \*  5
        Primitive("U32"),                                          \*  6
        Primitive("U64"),                                          \*  7
        Primitive("U128"),                                         \*  8
        Primitive("I32"),                                          \*  9
        TupleDef,                                                  \* 10
        Composite(<<"Unit">>, <<>>),                               \* 11
        Composite(<<"Flag">>, <<Field(None, 1)>>),                 \* 12
        Composite(<<"Pair">>, <<Field(None, 4), Field(None, 1)>>), \* 13
        Composite(<<"Point">>,
                  <<Field(Some("x"), 4), Field(Some("y"), 1)>>),   \* 14
        Composite(<<"Id">>, <<Field(Some("id"), 5)>>),             \* 15
        Variant(<<"E">>,
                <<VariantCase("A", <<>>),
                  VariantCase("B", <<Field(None, 4), Field(None, 1)>>),
                  VariantCase("C", <<Field(None, 12)>>),
                  VariantCase("B", <<Field(None, 1)>>)>>),         \* 16
        Array(3, 4),                                               \* 17
        Sequence(4),                                               \* 18
        Sequence(5),                                               \* 19
        Array(2, 1),                                               \* 20
        Sequence(13),                                              \* 21
        Composite(<<"Outer">>,
                  <<Field(Some("list"), 18), Field(Some("e"), 16)>>), \* 22
        Composite(<<"Loop">>, <<Field(None, 23)>>),                \* 23
        Composite(<<"Ping">>, <<Field(Some("pong"), 25)>>),        \* 24
        Composite(<<"Pong">>, <<Field(Some("ping"), 24)>>),        \* 25
        Composite(<<"Dangling">>, <<Field(None, 99)>>),            \* 26
        Sequence(99),                                              \* 27
        Variant(<<"Wide">>,
                PadCases \o <<VariantCase("Edge", <<Field(None, 1)>>),
                              VariantCase("Last", <<>>)>>),        \* 28
        Sequence(12)                                               \* 29
    >>

\* RegistryReadOnly::resolve
Resolves(id) == id \in DOMAIN Registry
Resolve(id) == Registry[id]

----------------------------------------------------------------------------
(* Outcomes of a call.  "ok" and "err" are the two values of Result<()>;   *)
(* "panic" is an unimplemented!/todo! reached; "stack_overflow" is the     *)
(* call stack exhausted.  out is what the call appended to the sink before *)
(* it ended (bytes appended before a failure stay in the sink).  ctx is    *)
(* the chain of wrappers around the cause, outermost first, each the path  *)
(* of the type it names.  entered is a history variable of the walk, read  *)
(* by the properties only: the type ids entered on the way to the failure. *)

Ok(out) ==
    [outcome |-> "ok", out |-> out, cause |-> "", ctx |-> <<>>, entered |-> <<>>]
Err(cause) ==
    [outcome |-> "err", out |-> <<>>, cause |-> cause, ctx |-> <<>>, entered |-> <<>>]
Panic(cause) ==
    [outcome |-> "panic", out |-> <<>>, cause |-> cause, ctx |-> <<>>, entered |-> <<>>]
StackOverflow ==
    [outcome |-> "stack_overflow", out |-> <<>>, cause |-> "stack overflow",
     ctx |-> <<>>, entered |-> <<>>]

\* The bytes pre were appended before r was produced.
After(pre, r) == [r EXCEPT !.out = pre \o @]

----------------------------------------------------------------------------
(* impl EncodeValue for TypeDefPrimitive                                   *)

\* UInt arm of U8..U128: try_into the target width, then encode_to.
EncodeUInt(n, bits) ==
    LET u == TryInto(n, bits)
    IN  IF u.ok THEN Ok(ToLeBytes(u.n, bits \div 8)) ELSE Err(u.msg)

\* String arm of U64/U128: strip the separators, from_str, then encode_to.
EncodeUIntStr(s, bits) ==
    LET sanitized == Sanitize(s)
        u == FromStr(sanitized, bits)
    IN  IF u.ok THEN Ok(ToLeBytes(u.n, bits \div 8)) ELSE Err(u.msg)

PrimitiveEncodeValueTo(prim, v) ==
    CASE prim = "Bool" ->
            IF v.kind = "Bool" THEN Ok(EncodeBool(v.b)) ELSE Err("Expected a bool value")
      [] prim = "Char" -> Err("scale codec not implemented for char")
      [] prim = "Str" ->
            IF v.kind = "String" THEN Ok(EncodeStr(v.text))
            ELSE Err("Expected a String value")
      [] prim = "U8" ->
            IF v.kind = "UInt" THEN EncodeUInt(v.num, 8) ELSE Err("Expected a u8 value")
      [] prim = "U16" ->
            IF v.kind = "UInt" THEN EncodeUInt(v.num, 16) ELSE Err("Expected a u16 value")
      [] prim = "U32" ->
            IF v.kind = "UInt" THEN EncodeUInt(v.num, 32) ELSE Err("Expected a u16 value")
      [] prim = "U64" ->
            IF v.kind = "UInt" THEN EncodeUInt(v.num, 64)
            ELSE IF v.kind = "String" THEN EncodeUIntStr(v.text, 64)
            ELSE Err("Expected a Number or a String value")
      [] prim = "U128" ->
            IF v.kind = "UInt" THEN EncodeUInt(v.num, 128)
            ELSE IF v.kind = "String" THEN EncodeUIntStr(v.text, 128)
            ELSE Err("Expected a Number or a String value")
      [] OTHER -> Panic("not implemented: TypeDefPrimitive::encode_value")

----------------------------------------------------------------------------
(* impl EncodeValue for Field, and the zip loops over fields and values    *)

FieldEncodeValueTo(field, v, depth) == EncodeValue(field.ty, v, depth + 1)

\* Mutant of FieldsZipEncode: every declared field must be given a value.
RECURSIVE FieldsZipAllFields(_, _, _)
FieldsZipAllFields(fields, values, depth) ==
    IF fields = <<>> THEN Ok(<<>>)
    ELSE IF values = <<>> THEN Err("Missing value for field")
    ELSE LET r == FieldEncodeValueTo(Head(fields), Head(values), depth)
         IN  IF r.outcome # "ok" THEN r
             ELSE After(r.out, FieldsZipAllFields(Tail(fields), Tail(values), depth))

\* for (field, value) in fields.iter().zip(values) { field.encode_value_to(..)?; }
FieldsZipEncode(fields, values, depth) ==
    IF fields = <<>> \/ values = <<>> THEN Ok(<<>>)
    ELSE LET r == FieldEncodeValueTo(Head(fields), Head(values), depth)
         IN  IF r.outcome # "ok" THEN r
             ELSE After(r.out, FieldsZipEncode(Tail(fields), Tail(values), depth))

----------------------------------------------------------------------------
(* impl EncodeValue for TypeDefComposite                                   *)

\* CompositeTypeFields::from_type_def: the shape of the field list.
CompositeTypeFields(fields) ==
    IF fields = <<>> THEN "NoFields"
    ELSE IF \A i \in 1..Len(fields) : fields[i].name # None THEN "StructNamedFields"
    ELSE "TupleStructUnnamedFields"

\* Mutant of CompositeEncodeValueTo: a bare value is handed to the first field
\* of any composite that has one.
CompositeBareToFirstField(ty, v, depth) ==
    IF v.kind = "Map" \/ (v.kind = "Tuple" /\ CompositeTypeFields(ty.fields) # "StructNamedFields")
    THEN FieldsZipEncode(ty.fields, v.elems, depth)
    ELSE IF v.kind = "Tuple" THEN Err("Type is a struct requiring named fields")
    ELSE IF Len(ty.fields) >= 1 THEN FieldEncodeValueTo(ty.fields[1], v, depth)
    ELSE Err("Expected a Map or a Tuple or a single Value for a composite data type")

CompositeEncodeValueTo(ty, v, depth) ==
    LET struct_type == CompositeTypeFields(ty.fields)
    IN  CASE v.kind = "Map" -> FieldsZipEncode(ty.fields, v.elems, depth)
          [] v.kind = "Tuple" ->
                (CASE struct_type = "TupleStructUnnamedFields" ->
                         FieldsZipEncode(ty.fields, v.elems, depth)
                   [] struct_type = "NoFields" -> Ok(<<>>)
                   [] struct_type = "StructNamedFields" ->
                         Err("Type is a struct requiring named fields"))
          [] OTHER ->
                IF Len(ty.fields) = 1
                THEN FieldEncodeValueTo(ty.fields[1], v, depth)
                ELSE Err("Expected a Map or a Tuple or a single Value for a composite data type")

----------------------------------------------------------------------------
(* impl EncodeValue for Variant and for TypeDefVariant                     *)

VariantEncodeValueTo(variant, v, depth) ==
    CASE v.kind = "Map" -> Panic("not yet implemented")
      [] v.kind = "Tuple" -> FieldsZipEncode(variant.fields, v.elems, depth)
      [] OTHER -> Err("Invalid enum variant value")

\* Mutant of FindPosition: the last case named ident.
FindLastPosition(variants, ident) ==
    LET hits == {i \in 1..Len(variants) : variants[i].name = ident}
    IN  IF hits = {} THEN 0 - 1
        ELSE (CHOOSE i \in hits : \A j \in hits : i >= j) - 1

\* Itertools::find_position: the index, from 0, of the first case named ident;
\* 0 - 1 when there is none.
FindPosition(variants, ident) ==
    LET hits == {i \in 1..Len(variants) : variants[i].name = ident}
    IN  IF hits = {} THEN 0 - 1
        ELSE (CHOOSE i \in hits : \A j \in hits : i <= j) - 1

TypeDefVariantEncodeValueTo(ty, v, depth) ==
    IF v.kind \notin {"Map", "Tuple"} THEN Err("Invalid enum variant value")
    ELSE IF v.ident = None
         THEN Err(IF v.kind = "Map" THEN "Missing enum variant identifier for map"
                  ELSE "Missing enum variant identifier for tuple")
    ELSE LET index == FindPosition(ty.variants, v.ident[1])
         IN  IF index < 0 THEN Err("No variant found")
             ELSE IF index > 255 THEN Err("Variant index > 255")
             ELSE After(<<index>>,
                        VariantEncodeValueTo(ty.variants[index + 1], v, depth))

----------------------------------------------------------------------------
(* encode_seq, impl EncodeValue for TypeDefArray and for TypeDefSequence   *)

\* for value in values.elems() { ty.type_def().encode_value_to(..)?; }
\* The element type is entered without passing through encode_value.  The
\* elements are encoded left to right and the first failure ends the loop; the
\* walk is split in halves only so that a long sequence nests no deeper than
\* a short one.
EncodeSeqElems(elem_id, ty, elems, depth) ==
    IF elems = <<>> THEN Ok(<<>>)
    ELSE IF Len(elems) = 1
         THEN LET r == TypeDefEncodeValueTo(ty, elems[1], depth + 1)
              IN  IF r.outcome = "err" THEN [r EXCEPT !.entered = <<elem_id>> \o @]
                  ELSE r
    ELSE LET h == Len(elems) \div 2
             r == EncodeSeqElems(elem_id, ty, SubSeq(elems, 1, h), depth)
         IN  IF r.outcome # "ok" THEN r
             ELSE After(r.out,
                        EncodeSeqElems(elem_id, ty, SubSeq(elems, h + 1, Len(elems)), depth))

\* Mutant of EncodeSeq: the Bytes arm never writes the count.
EncodeSeqBytesUnprefixed(elem_id, v, encode_len, depth) ==
    IF ~Resolves(elem_id) THEN Err("Failed to find type with id")
    ELSE CASE v.kind = "Seq" ->
                After(IF encode_len THEN CompactU32(Len(v.elems)) ELSE <<>>,
                      EncodeSeqElems(elem_id, Resolve(elem_id), v.elems, depth))
           [] v.kind = "Bytes" -> Ok(v.bytes)
           [] OTHER -> Err("cannot be encoded as an array")

EncodeSeq(elem_id, v, encode_len, depth) ==
    IF ~Resolves(elem_id) THEN Err("Failed to find type with id")
    ELSE CASE v.kind = "Seq" ->
                After(IF encode_len THEN CompactU32(Len(v.elems)) ELSE <<>>,
                      EncodeSeqElems(elem_id, Resolve(elem_id), v.elems, depth))
           [] v.kind = "Bytes" ->
                Ok((IF encode_len THEN CompactU32(Len(v.bytes)) ELSE <<>>) \o v.bytes)
           [] OTHER -> Err("cannot be encoded as an array")

\* Mutant of ArrayEncodeValueTo: the array writes a count like a sequence.
ArrayEncodeWithLen(ty, v, depth) == EncodeSeq(ty.type_param, v, TRUE, depth)

ArrayEncodeValueTo(ty, v, depth) == EncodeSeq(ty.type_param, v, FALSE, depth)

SequenceEncodeValueTo(ty, v, depth) == EncodeSeq(ty.type_param, v, TRUE, depth)

----------------------------------------------------------------------------
(* impl EncodeValue for TypeDef, and encode_value                          *)

TypeDefEncodeValueTo(ty, v, depth) ==
    CASE ty.def = "Composite" -> CompositeEncodeValueTo(ty, v, depth)
      [] ty.def = "Variant"   -> TypeDefVariantEncodeValueTo(ty, v, depth)
      [] ty.def = "Array"     -> ArrayEncodeValueTo(ty, v, depth)
      [] ty.def = "Sequence"  -> SequenceEncodeValueTo(ty, v, depth)
      [] ty.def = "Primitive" -> PrimitiveEncodeValueTo(ty.prim, v)
      [] OTHER -> Panic("not implemented: TypeDef::encode_value")

\* The code keeps no count of its depth and no set of the types it is inside:
\* the only end of an unbounded descent is the call stack running out, at a
\* depth of StackLimit nested calls here.
EncodeValue(id, v, depth) ==
    IF depth > StackLimit THEN StackOverflow
    ELSE IF ~Resolves(id) THEN Err("Failed to resolve type with id")
    ELSE LET ty == Resolve(id)
             r  == TypeDefEncodeValueTo(ty, v, depth)
         IN  IF r.outcome = "err"
             THEN [r EXCEPT !.ctx = <<ty.path>> \o @, !.entered = <<id>> \o @]
             ELSE r

----------------------------------------------------------------------------
(* The calls the model makes: the values and type ids a caller may hand to *)
(* encode_value, and the buffers it may hand them with.                    *)

SeqsUpTo(S, n) == UNION {[1..k -> S] : k \in 0..n}

\* Unsigned literals at and around the edge of every width.
Numbers ==
    { <<0>>, <<7>>, <<255>>, <<256>>, <<65535>>, <<65536>>, <<1, 0>>,
      MaxOf(32), MulAdd(MaxOf(32), 1, 1), MaxOf(64), MulAdd(MaxOf(64), 1, 1),
      MaxOf(128) }

Alphabet == {"0", "7", "_", ",", "+", "a"}

\* The decimal text of the number d, with sep after every third digit from
\* the right.
Grouped(d, sep) ==
    LET first   == Head(d)
        lead    == IF first >= 100000 THEN 6 ELSE IF first >= 10000 THEN 5
                   ELSE IF first >= 1000 THEN 4 ELSE IF first >= 100 THEN 3
                   ELSE IF first >= 10 THEN 2 ELSE 1
        n       == 6 * (Len(d) - 1) + lead
        digit(p) == (d[Len(d) - p \div 6] \div Pow10(p % 6)) % 10
        len     == n + (n - 1) \div 3
        char(q) == IF q % 4 = 3 THEN sep ELSE Digits[digit(q - q \div 4) + 1]
    IN  [i \in 1..len |-> char(len - i)]

LongTexts ==
    { Grouped(<<1, 0>>, "_"), Grouped(<<1, 0>>, ","),
      Grouped(MaxOf(64), ","), Grouped(MulAdd(MaxOf(64), 1, 1), "_"),
      Grouped(MaxOf(128), "_"), Grouped(MulAdd(MaxOf(128), 1, 1), "_"),
      <<"-", "7">>, <<"-">>, <<"7", "+">> }

Atoms == {ValueBool(TRUE), ValueUInt(<<7>>), ValueUInt(<<256>>)}

Idents == {None, Some("A"), Some("B"), Some("C"), Some("Z")}

KeyNames == <<"x", "y", "z", "w">>
KeyOrders(k) ==
    { [i \in 1..k |-> KeyNames[i]], [i \in 1..k |-> KeyNames[k + 1 - i]] }

NumberValues == {ValueUInt(n) : n \in Numbers}
BoolValues   == {ValueBool(b) : b \in BOOLEAN}
BytesValues  ==
    {ValueBytes(bs) : bs \in SeqsUpTo({0, 255}, MaxLen)}
        \cup {ValueBytes([i \in 1..64 |-> 7])}
SeqValues    ==
    {ValueSeq(es) : es \in SeqsUpTo(Atoms, MaxLen)}
        \cup {ValueSeq([i \in 1..64 |-> ValueUInt(<<7>>)])}
TupleValues  == {ValueTuple(id, es) : id \in Idents, es \in SeqsUpTo(Atoms, MaxLen)}
MapValues    ==
    UNION { {ValueMap(id, ks, es) : id \in {None, Some("B")}, ks \in KeyOrders(Len(es))}
            : es \in SeqsUpTo(Atoms, MaxLen) }

\* Value trees two and three levels deep.
NestedValues ==
    LET seven == ValueUInt(<<7>>)
        big   == ValueUInt(<<256>>)
        yes   == ValueBool(TRUE)
        pair  == ValueTuple(None, <<seven, yes>>)
        bad   == ValueTuple(None, <<big, yes>>)
        flag  == ValueTuple(None, <<yes>>)
    IN  { ValueSeq(<<pair, pair>>), ValueSeq(<<pair, bad>>), ValueSeq(<<flag, yes>>),
          ValueSeq(<<flag, seven>>),
          ValueTuple(Some("C"), <<flag>>), ValueTuple(Some("C"), <<ValueTuple(None, <<seven>>)>>),
          ValueTuple(Some("Edge"), <<yes>>), ValueTuple(Some("Last"), <<>>),
          ValueMap(None, <<"list", "e">>,
                   <<ValueSeq(<<seven>>), ValueTuple(Some("B"), <<seven, yes>>)>>),
          ValueMap(None, <<"e", "list">>,
                   <<ValueSeq(<<seven, big>>), ValueTuple(Some("B"), <<seven, yes>>)>>),
          ValueMap(None, <<"list", "e">>,
                   <<ValueBytes(<<1, 2>>), ValueTuple(Some("C"), <<ValueTuple(None, <<seven>>)>>)>>),
          ValueMap(None, <<"list", "e">>,
                   <<ValueSeq(<<seven>>), ValueMap(Some("B"), <<"x">>, <<seven>>)>>) }

Values ==
    BoolValues \cup NumberValues \cup BytesValues \cup SeqValues \cup TupleValues
        \cup MapValues \cup NestedValues
        \cup {ValueString(<<>>), ValueString(<<"7">>), ValueString(<<"a", "7">>)}

\* Every id of the registry, and one it does not hold.
TypeIds == DOMAIN Registry \cup {99}

PrimitiveIds == {id \in DOMAIN Registry : Resolve(id).def = "Primitive"}

PrimitiveValues ==
    BoolValues \cup NumberValues
        \cup {ValueString(s) : s \in SeqsUpTo(Alphabet, MaxStrLen) \cup LongTexts}

\* What the caller's buffer may hold before the call.
Buffers == { <<>>, <<171>> }

NoResult == [outcome |-> "none", out |-> <<>>, cause |-> "", ctx |-> <<>>, entered |-> <<>>]

----------------------------------------------------------------------------
(* The state machine: one call of encode_value from its caller.            *)

Init ==
    /\ type_id \in TypeIds
    /\ value \in Values
    /\ output \in Buffers
    /\ result = NoResult
    /\ pc = "call"

InitPrimitive ==
    /\ type_id \in PrimitiveIds
    /\ value \in PrimitiveValues
    /\ output \in Buffers
    /\ result = NoResult
    /\ pc = "call"

\* encode_value(registry, type_id, value, output), run to its end.
Call ==
    LET r == EncodeValue(type_id, value, 0)
    IN  /\ output' = output \o r.out
        /\ result' = r
        /\ pc' = "done"
        /\ UNCHANGED <<type_id, value>>

\* registry.resolve(type_id) is None
EncodeUnresolved == pc = "call" /\ ~Resolves(type_id) /\ Call

\* The arms of TypeDef::encode_value_to.
EncodeComposite ==
    pc = "call" /\ Resolves(type_id) /\ Resolve(type_id).def = "Composite" /\ Call
EncodeVariant ==
    pc = "call" /\ Resolves(type_id) /\ Resolve(type_id).def = "Variant" /\ Call
EncodeArray ==
    pc = "call" /\ Resolves(type_id) /\ Resolve(type_id).def = "Array" /\ Call
EncodeSequence ==
    pc = "call" /\ Resolves(type_id) /\ Resolve(type_id).def = "Sequence" /\ Call
EncodePrimitive ==
    pc = "call" /\ Resolves(type_id) /\ Resolve(type_id).def = "Primitive" /\ Call
EncodeUnimplemented ==
    /\ pc = "call" /\ Resolves(type_id)
    /\ Resolve(type_id).def \notin {"Composite", "Variant", "Array", "Sequence", "Primitive"}
    /\ Call

Next ==
    \/ EncodeUnresolved
    \/ EncodeComposite
    \/ EncodeVariant
    \/ EncodeArray
    \/ EncodeSequence
    \/ EncodePrimitive
    \/ EncodeUnimplemented

NextPrimitive == EncodePrimitive

Spec == Init /\ [][Next]_vars

SpecPrimitive == InitPrimitive /\ [][NextPrimitive]_vars

----------------------------------------------------------------------------
(* Vocabulary of the properties.                                           *)

RECURSIVE ConcatAll(_)
\* The sequences of ss one after the other.
ConcatAll(ss) ==
    IF ss = <<>> THEN <<>>
    ELSE IF Len(ss) = 1 THEN ss[1]
    ELSE LET h == Len(ss) \div 2
         IN  ConcatAll(SubSeq(ss, 1, h)) \o ConcatAll(SubSeq(ss, h + 1, Len(ss)))

RECURSIVE FromLeBytes(_)
\* The number whose little-endian bytes are bs.
FromLeBytes(bs) ==
    IF bs = <<>> THEN <<0>> ELSE MulAdd(FromLeBytes(Tail(bs)), 256, Head(bs))

\* 2^bits
Pow2(bits) == FromLeBytes([i \in 1..(bits \div 8 + 1) |-> IF i = bits \div 8 + 1 THEN 1 ELSE 0])

\* n <= 2^bits - 1
FitsIn(n, bits) == ~Leq(Pow2(bits), n)

\* A byte as a number.
ByteNumber(n) == <<n>>

\* The bytes the step appended to the sink.
Appended == SubSeq(output', Len(output) + 1, Len(output'))
Appends(bs) == output' = output \o bs

TypeOfCall == Resolve(type_id)
CallsKind(defs) == pc = "call" /\ Resolves(type_id) /\ TypeOfCall.def \in defs
Returned(outcomes) == pc = "done" /\ result.outcome \in outcomes

Min(a, b) == IF a < b THEN a ELSE b

\* The results of encoding the first min(n, k) field/value pairs, each on its own.
PairResults(fields, values) ==
    [i \in 1..Min(Len(fields), Len(values)) |-> EncodeValue(fields[i].ty, values[i], 0)]
AllOk(rs) == \A i \in 1..Len(rs) : rs[i].outcome = "ok"
Outs(rs) == ConcatAll([i \in 1..Len(rs) |-> rs[i].out])

----------------------------------------------------------------------------
\* The Seq of the UInt values of the bytes of a Bytes value.
BytesAsSeq(v) == ValueSeq([i \in 1..Len(v.bytes) |-> ValueUInt(ByteNumber(v.bytes[i]))])

SameAsSeqOfBytes ==
    LET s == EncodeValue(type_id, BytesAsSeq(value), 0)
    IN  result'.outcome = s.outcome /\ Appends(s.out)

ElementIsU8 ==
    Resolves(TypeOfCall.type_param) /\ Resolve(TypeOfCall.type_param) = Primitive("U8")

\* C1 (as the claim states it): for every Sequence or Array type of the
\* registry, a Bytes value and the Seq of the UInt values of its bytes have the
\* same outcome and append the same bytes.
C1_BytesSeqEquivalence_AnyElement ==
    [][CallsKind({"Array", "Sequence"}) /\ value.kind = "Bytes" => SameAsSeqOfBytes]_vars

\* C1 (amended): the equivalence holds for every Sequence or Array type whose
\* element type is the primitive U8: a Bytes value and the Seq of the UInt
\* values of its bytes then have the same outcome and append the same bytes.
C1_BytesSeqEquivalence_U8 ==
    [][CallsKind({"Array", "Sequence"}) /\ value.kind = "Bytes" /\ ElementIsU8
         => SameAsSeqOfBytes]_vars

\* C1 witness: Bytes [255, 0] encoded against Sequence(U8).
C1_Witness ==
    /\ Returned({"ok"}) /\ TypeOfCall = Sequence(4)
    /\ value = ValueBytes(<<255, 0>>) /\ result.out = <<8, 255, 0>>

----------------------------------------------------------------------------
\* The element encodings of a Seq or Bytes value, in order.
ElementOuts(elem_ty, v) ==
    IF v.kind = "Bytes" THEN v.bytes
    ELSE ConcatAll([i \in 1..Len(v.elems) |->
                        TypeDefEncodeValueTo(Resolve(elem_ty), v.elems[i], 1).out])

ElementCount(v) == IF v.kind = "Bytes" THEN Len(v.bytes) ELSE Len(v.elems)

\* C2: a Seq or Bytes value of n elements that encodes successfully appends,
\* against Sequence(T), compact(n) and then the n element encodings in order,
\* and against Array(T, len) those n element encodings alone: the sequence
\* output is compact(n) followed by the array output.
C2_ArrayVsSequencePrefix ==
    [][CallsKind({"Array", "Sequence"}) /\ value.kind \in {"Seq", "Bytes"}
         /\ result'.outcome = "ok"
         => LET T     == TypeOfCall.type_param
                n     == ElementCount(value)
                asArr == TypeDefEncodeValueTo(Array(n, T), value, 0)
                asSeq == TypeDefEncodeValueTo(Sequence(T), value, 0)
            IN  /\ asArr.outcome = "ok" /\ asSeq.outcome = "ok"
                /\ asArr.out = ElementOuts(T, value)
                /\ asSeq.out = CompactU32(n) \o asArr.out
                /\ Appends(IF TypeOfCall.def = "Array" THEN ElementOuts(T, value)
                           ELSE CompactU32(n) \o ElementOuts(T, value))]_vars

\* C2 witness: a Seq of three UInt encoded against Sequence(U8).
C2_Witness ==
    /\ Returned({"ok"}) /\ TypeOfCall = Sequence(4)
    /\ value = ValueSeq(<<ValueUInt(<<7>>), ValueUInt(<<7>>), ValueUInt(<<7>>)>>)
    /\ result.out = <<12, 7, 7, 7>>

----------------------------------------------------------------------------
\* C3: a successful encode of a Tuple carrying an identifier against a Variant
\* type appends one byte, the zero-based declaration index of the first case
\* named by the identifier, and then the encodings of that case's fields paired
\* positionally with the tuple's values; the index does not depend on the
\* payload.
C3_VariantIndex ==
    [][CallsKind({"Variant"}) /\ value.kind = "Tuple" /\ value.ident # None
         /\ result'.outcome = "ok"
         => \E i \in 1..Len(TypeOfCall.variants) :
               /\ TypeOfCall.variants[i].name = value.ident[1]
               /\ \A j \in 1..(i - 1) : TypeOfCall.variants[j].name # value.ident[1]
               /\ i - 1 <= 255
               /\ LET rs == PairResults(TypeOfCall.variants[i].fields, value.elems)
                  IN  AllOk(rs) /\ Appends(<<i - 1>> \o Outs(rs))]_vars

\* C3 witness: case "B", declared second and fourth, given two values.
C3_Witness ==
    /\ Returned({"ok"}) /\ TypeOfCall.def = "Variant" /\ TypeOfCall.path = <<"E">>
    /\ value = ValueTuple(Some("B"), <<ValueUInt(<<7>>), ValueBool(TRUE)>>)
    /\ result.out = <<1, 7, 1>>

----------------------------------------------------------------------------
Width(prim) ==
    CASE prim = "U8" -> 8 [] prim = "U16" -> 16 [] prim = "U32" -> 32
      [] prim = "U64" -> 64 [] prim = "U128" -> 128

\* C4: against U8, U16 and U32 a UInt value v succeeds exactly when
\* v <= 2^w - 1 and then appends the w/8 little-endian bytes of v; otherwise the
\* call fails with a conversion error and appends nothing.
C4_FixedWidthBoundary ==
    [][CallsKind({"Primitive"}) /\ TypeOfCall.prim \in {"U8", "U16", "U32"}
         /\ value.kind = "UInt"
         => LET w == Width(TypeOfCall.prim)
            IN  IF FitsIn(value.num, w)
                THEN /\ result'.outcome = "ok"
                     /\ Len(output') = Len(output) + w \div 8
                     /\ Appends(Appended)
                     /\ FromLeBytes(Appended) = value.num
                ELSE /\ result'.outcome = "err"
                     /\ result'.cause = "out of range integral type conversion attempted"
                     /\ output' = output]_vars

\* C4 witness: 255 encoded against U8.
C4_Witness ==
    /\ Returned({"ok"}) /\ TypeOfCall = Primitive("U8")
    /\ value = ValueUInt(<<255>>) /\ result.out = <<255>>

----------------------------------------------------------------------------
\* The number a text of digits writes.
DecimalValue(s) == FromDigits([i \in 1..Len(s) |-> ToDigit(s[i])])

Stripped(s) == SelectSeq(s, LAMBDA c : c \notin {"_", ","})

IsDecimalLiteral(s) == s # <<>> /\ \A i \in 1..Len(s) : IsDigit(s[i])

StringPathAgrees(literal) ==
    LET w == Width(TypeOfCall.prim)
    IN  IF IsDecimalLiteral(literal) /\ FitsIn(DecimalValue(literal), w)
        THEN LET n == DecimalValue(literal)
                 u == EncodeValue(type_id, ValueUInt(n), 0)
             IN  /\ result'.outcome = "ok" /\ u.outcome = "ok"
                 /\ Appends(u.out)
                 /\ Len(u.out) = w \div 8 /\ FromLeBytes(u.out) = n
        ELSE result'.outcome = "err" /\ output' = output

\* C5 (as the claim states it): against U64 and U128 a String value, once its
\* '_' and ',' are removed, succeeds exactly when what is left is an unsigned
\* decimal literal (one or more digits) within the width, and then appends the
\* bytes Value::UInt of that number appends; otherwise it fails and appends
\* nothing.
C5_StringPath_DigitsOnly ==
    [][CallsKind({"Primitive"}) /\ TypeOfCall.prim \in {"U64", "U128"}
         /\ value.kind = "String"
         => StringPathAgrees(Stripped(value.text))]_vars

\* A literal without its leading '+', when it has one.
Unsigned(s) == IF s # <<>> /\ Head(s) = "+" THEN Tail(s) ELSE s

\* C5 (amended): against U64 and U128 a String value, once its '_' and ','
\* are removed, succeeds exactly when what is left is an unsigned decimal
\* literal, which may carry one leading '+' before its digits, within the
\* width, and then appends the bytes Value::UInt of that number appends;
\* otherwise it fails and appends nothing.
C5_StringPath ==
    [][CallsKind({"Primitive"}) /\ TypeOfCall.prim \in {"U64", "U128"}
         /\ value.kind = "String"
         => StringPathAgrees(Unsigned(Stripped(value.text)))]_vars

\* C5 witness: "1_000_000" encoded against U64.
C5_Witness ==
    /\ Returned({"ok"}) /\ TypeOfCall = Primitive("U64")
    /\ value = ValueString(<<"1", "_", "0", "0", "0", "_", "0", "0", "0">>)
    /\ result.out = <<64, 66, 15, 0, 0, 0, 0, 0>>

----------------------------------------------------------------------------
\* C6: a value that is neither a Map nor a Tuple, against a composite with
\* exactly one field of type T, has the outcome and appends the bytes of
\* encoding it against T; against a composite with no field or with two or
\* more it is rejected with an error and nothing is appended.
C6_SingleFieldComposite ==
    [][CallsKind({"Composite"}) /\ value.kind \notin {"Map", "Tuple"}
         => IF Len(TypeOfCall.fields) = 1
            THEN LET d == EncodeValue(TypeOfCall.fields[1].ty, value, 0)
                 IN  result'.outcome = d.outcome /\ Appends(d.out)
            ELSE result'.outcome = "err" /\ output' = output]_vars

\* C6 witness: a bare Bool encoded against the one-field composite Flag(Bool).
C6_Witness ==
    /\ Returned({"ok"}) /\ TypeOfCall.path = <<"Flag">>
    /\ value = ValueBool(TRUE) /\ result.out = <<1>>

----------------------------------------------------------------------------
\* C7: a call whose walk reaches an unimplemented kind or shape returns an
\* error to its caller; it never ends in a crash.
C7_UnsupportedIsError == pc = "done" => result.outcome # "panic"

----------------------------------------------------------------------------
\* C8: every call ends after finitely many recursive steps with success or an
\* error, also against a registry whose type graph is cyclic; it never
\* recurses until the call stack runs out.
C8_GuardedRecursion == pc = "done" => result.outcome # "stack_overflow"

----------------------------------------------------------------------------
\* C9: the error a failed call returns is wrapped once for each type entered
\* on the way to the failure, each wrapper naming that type, outermost first.
C9_ErrorContextEveryLevel ==
    Returned({"err"}) =>
        /\ Len(result.ctx) = Len(result.entered)
        /\ \A i \in 1..Len(result.entered) :
               i <= Len(result.ctx) /\ result.ctx[i] = Resolve(result.entered[i]).path

----------------------------------------------------------------------------
\* The calls that pair declared fields with supplied values.
ZipsComposite ==
    /\ CallsKind({"Composite"})
    /\ \/ value.kind = "Map"
       \/ value.kind = "Tuple" /\ TypeOfCall.fields # <<>>
            /\ \A i \in 1..Len(TypeOfCall.fields) : TypeOfCall.fields[i].name = None

ZipsVariantCase(i) ==
    /\ CallsKind({"Variant"}) /\ value.kind = "Tuple" /\ value.ident # None
    /\ i \in 1..Min(Len(TypeOfCall.variants), 256)
    /\ TypeOfCall.variants[i].name = value.ident[1]
    /\ \A j \in 1..(i - 1) : TypeOfCall.variants[j].name # value.ident[1]

PairsDecide(prefix, fields) ==
    LET rs == PairResults(fields, value.elems)
    IN  IF AllOk(rs) THEN result'.outcome = "ok" /\ Appends(prefix \o Outs(rs))
        ELSE result'.outcome # "ok"

\* C10: a composite given a Map, a composite of unnamed fields given a Tuple,
\* and a variant case given a Tuple encode exactly the first min(n, k)
\* field/value pairs in order, whatever the names of the map's entries; a
\* difference between n and k alone is no error: the call succeeds exactly when
\* every one of those pairs does.
C10_ZipStopsAtShorter ==
    [][/\ ZipsComposite => PairsDecide(<<>>, TypeOfCall.fields)
       /\ \A i \in 1..256 :
             ZipsVariantCase(i) => PairsDecide(<<i - 1>>, TypeOfCall.variants[i].fields)]_vars

\* C10 witness: the two-field composite Point given a Map of one entry.
C10_Witness ==
    /\ Returned({"ok"}) /\ TypeOfCall.path = <<"Point">>
    /\ value = ValueMap(None, <<"x">>, <<ValueUInt(<<7>>)>>)
    /\ result.out = <<7>>

====
